---------------------------- MODULE Spec2Model ----------------------------
(*************************************************************************)
(* The sharding layer of pkg/object/sharding.go: the shard router        *)
(* (sharded.pick), the paginated listing driver (ListAll) and the        *)
(* cross-shard k-way merge (sharded.ListAll).                            *)
(*                                                                       *)
(* Keys are Go strings, modelled as sequences of bytes and compared      *)
(* bytewise as Go compares strings.  An Object is identified by its key  *)
(* and the shard that listed it; a nil Object is the record Nil.         *)
(* Channels are bounded FIFO buffers with a closed flag; a receive from  *)
(* a closed, drained channel yields Nil, the zero value of Object.       *)
(*                                                                       *)
(* Every backend is of the kind that embeds DefaultObjectStorage: its    *)
(* native ListAll answers notSupported and its List is supported, so     *)
(* ListAll always runs the paging code of lines 98-147.  The prefix and   *)
(* followLink arguments are handed to the backend unchanged and are left *)
(* out.                                                                  *)
(*************************************************************************)
EXTENDS Integers, Sequences, FiniteSets, TLC

\* ------------------------------------------------------------- bounds
\* Number of shards of the facade (len(s.stores)).
NumShards == 3
\* Number of distinct keys the backends may hold or return.
NumKeys == 4
\* Stand-in for the page-size cap and per-shard queue capacity (10000).
PageCap == 2
\* Stand-in for the capacity of the merged output queue (1000).
OutCap == 2
\* Largest number of failed requests for a next page in one run.
MaxFail == 1

\* --------------------------------------------------------------- keys
Shards == 0..(NumShards - 1)

\* The n-th string over the bytes 'c' (99) and 'm' (109) in length-then-
\* alphabet order: "", "c", "m", "cc", "cm", "mc", ...  (with these two
\* bytes the first keys hash to different shards for 2, 3 and 4 shards).
RECURSIVE KeyOf(_)
KeyOf(n) ==
    IF n = 0 THEN <<>>
    ELSE Append(KeyOf((n - 1) \div 2), IF (n - 1) % 2 = 0 THEN 99 ELSE 109)

Key == {KeyOf(n) : n \in 0..(NumKeys - 1)}

EmptyKey == <<>>

\* Go's string comparison a < b: bytewise lexicographic, a proper prefix
\* is smaller.
StrLess(a, b) ==
    \E i \in 1..Len(b) :
        /\ \A j \in 1..(i - 1) : j <= Len(a) /\ a[j] = b[j]
        /\ i > Len(a) \/ a[i] < b[i]

\* Go's a <= b.
StrLeq(a, b) == a = b \/ StrLess(a, b)

\* --------------------------------------------------------------- objects
Nil == [nil |-> TRUE, key |-> <<>>, shard |-> 0]

Obj(k, i) == [nil |-> FALSE, key |-> k, shard |-> i]

\* const maxResults = 10000, scaled to the bound PageCap.
maxResults == PageCap

\* make(chan Object, 1000), scaled to the bound OutCap.
outCap == OutCap

\* The keys of the non-nil objects of a sequence of objects, in order.
KeysOf(s) == [j \in 1..Len(SelectSeq(s, LAMBDA o : ~o.nil)) |->
                 SelectSeq(s, LAMBDA o : ~o.nil)[j].key]

\* A sequence of keys is strictly increasing.
StrictlyIncreasing(ks) ==
    \A j \in 1..(Len(ks) - 1) : StrLess(ks[j], ks[j + 1])

\* The keys of set S in ascending order.
RECURSIVE SortedSeq(_)
SortedSeq(S) ==
    IF S = {} THEN <<>>
    ELSE LET m == CHOOSE x \in S : \A y \in S : StrLeq(x, y)
         IN  <<m>> \o SortedSeq(S \ {m})

\* The first n elements of a sequence.
Take(s, n) == SubSeq(s, 1, IF n < Len(s) THEN n ELSE Len(s))

\* ---------------------------------------------------------- shard router
\* Bitwise exclusive or of two naturals below 2^n.
RECURSIVE XorBits(_, _, _)
XorBits(a, b, n) ==
    IF n = 0 THEN 0
    ELSE ((a + b) % 2) + 2 * XorBits(a \div 2, b \div 2, n - 1)

\* One round of FNV-1a on 32 bits: h = (h XOR byte) * 16777619 mod 2^32.
\* A 32-bit word is the pair <<high 16 bits, low 16 bits>>; the prime is
\* 2^24 + 403, so the product is formed per half and cut to 32 bits.
FnvStep(h, byte) ==
    LET lo == XorBits(h[2] % 256, byte, 8) + 256 * (h[2] \div 256)
        hi == h[1]
        pl == lo * 403
    IN  << (hi * 403 + (pl \div 65536) + (lo % 256) * 256) % 65536,
           pl % 65536 >>

\* fnv.New32a(); h.Write([]byte(key)); h.Sum32(): the offset basis
\* 2166136261 = 0x811C9DC5 folded over the bytes of the key.
RECURSIVE Sum32(_)
Sum32(key) ==
    IF key = <<>> THEN <<33052, 40389>>
    ELSE FnvStep(Sum32(SubSeq(key, 1, Len(key) - 1)), key[Len(key)])

\* h.Sum32() % uint32(n), computed per half so no product exceeds 2^31.
ModWord(h, n) == ((h[1] % n) * (65536 % n) + (h[2] % n)) % n

\* sharded.pick over n stores: the remainder by a zero divisor is a
\* run-time panic.
PickPanics(n) == n = 0

pickN(key, n) == ModWord(Sum32(key), n)

\* sharded.pick: the index of the shard that owns key.
pick(key) == ModWord(Sum32(key), NumShards)

\* ------------------------------------------------------ endpoint templates
\* strconv.Itoa for a non-negative int, as bytes.
RECURSIVE Itoa(_)
Itoa(n) == IF n < 10 THEN <<48 + n>> ELSE Itoa(n \div 10) \o <<48 + (n % 10)>>

\* The byte '%'.
Percent == 37

\* "%!(EXTRA int=" ++ Itoa(i) ++ ")": what fmt appends for an unused operand.
Extra(i) == <<37, 33, 40, 69, 88, 84, 82, 65, 32, 105, 110, 116, 61>> \o Itoa(i) \o <<41>>

\* "%!(NOVERB)": what fmt writes for a '%' that ends the format.
NoVerb == <<37, 33, 40, 78, 79, 86, 69, 82, 66, 41>>

\* "%!v(MISSING)": what fmt writes for verb v when the operand is used up.
Missing(v) == <<37, 33, v, 40, 77, 73, 83, 83, 73, 78, 71, 41>>

\* "%!v(int=i)": what fmt writes for a verb v that an int does not accept.
BadVerb(v, i) == <<37, 33, v, 40, 105, 110, 116, 61>> \o Itoa(i) \o <<41>>

\* What fmt writes for verb v applied to the int operand i: 'd' prints it in
\* decimal, 'T' prints its type "int".
PrintArg(v, i) ==
    CASE v = 100 -> Itoa(i)
      [] v = 84  -> <<105, 110, 116>>
      [] OTHER   -> BadVerb(v, i)

\* doPrintf over format f from position j with one int operand i; used
\* tells whether the operand has been consumed.
RECURSIVE DoPrintf(_, _, _, _)
DoPrintf(f, j, i, used) ==
    IF j > Len(f) THEN (IF used THEN <<>> ELSE Extra(i))
    ELSE IF f[j] # Percent THEN <<f[j]>> \o DoPrintf(f, j + 1, i, used)
    ELSE IF j = Len(f) THEN NoVerb \o (IF used THEN <<>> ELSE Extra(i))
    ELSE IF f[j + 1] = Percent THEN <<Percent>> \o DoPrintf(f, j + 2, i, used)
    ELSE IF used THEN Missing(f[j + 1]) \o DoPrintf(f, j + 2, i, used)
    ELSE PrintArg(f[j + 1], i) \o DoPrintf(f, j + 2, i, TRUE)

\* fmt.Sprintf(endpoint, i).
Sprintf(f, i) == DoPrintf(f, 1, i, FALSE)

\* strings.HasSuffix(s, suffix).
HasSuffix(s, suffix) ==
    /\ Len(s) >= Len(suffix)
    /\ SubSeq(s, Len(s) - Len(suffix) + 1, Len(s)) = suffix

\* The test NewSharded makes on the endpoint of a shard.
SuffixIsExtra(ep) == HasSuffix(ep, Extra(0))

\* ------------------------------------------------------------------ state
VARIABLES
    stores,     \* stores[i]: the keys backend i holds
    backend,    \* "honest": List honours marker and limit; "any": List
                \* answers any page of the backend's objects
    start,      \* the marker the caller passes to ListAll
    pc,         \* pc[i]: where listing driver i is
    marker,     \* marker[i]: ListAll's marker variable
    objs,       \* objs[i]: the page being emitted
    pos,        \* pos[i]: index of the range loop in objs[i]
    lastkey,    \* lastkey[i]
    first,      \* first[i]
    ch,         \* ch[i]: the buffer of driver i's channel out
    closed,     \* closed[i]: driver i's channel is closed
    sent,       \* sent[i]: everything driver i has sent on its channel
    reqs,       \* reqs[i]: the List requests driver i has issued
    spc,        \* where the caller of sharded.ListAll is
    si,         \* the loop index i of sharded.ListAll
    heads,      \* heads.os, the merge frontier
    cur,        \* n, the entry the merge task popped last
    mpc,        \* where the merge task is
    out,        \* the buffer of the merged channel
    outClosed,  \* the merged channel is closed
    ret,        \* what sharded.ListAll returned
    got,        \* everything the consumer has received
    reading,    \* the consumer is still receiving
    lastOp,     \* the last single-key call of the facade and the shard it reached
    uploads,    \* uploads[i]: the keys with an open multipart upload on backend i
    live,       \* the keys put through the facade and not deleted since
    endpoint,   \* the endpoint template passed to NewSharded
    shards,     \* the shard count passed to NewSharded
    made,       \* the endpoints of the stores NewSharded has created, in order
    npc         \* where the call of NewSharded is

driverVars == <<pc, marker, objs, pos, lastkey, first, ch, closed, sent, reqs>>

mergeVars == <<spc, si, heads, cur, mpc, out, outClosed, ret>>

envVars == <<stores, backend, start>>

facadeVars == <<lastOp, uploads, live>>

newVars == <<endpoint, shards, made, npc>>

vars == <<envVars, driverVars, mergeVars, got, reading, facadeVars, newVars>>

NoOp == [op |-> "none", key |-> <<>>, shard |-> 0, found |-> FALSE]

NoEntry == [o |-> Nil, ch |-> 0]

\* The state before any call: no listing started, queues empty.
Idle ==
    /\ pc = [i \in Shards |-> "idle"]
    /\ marker = [i \in Shards |-> <<>>]
    /\ objs = [i \in Shards |-> <<>>]
    /\ pos = [i \in Shards |-> 1]
    /\ lastkey = [i \in Shards |-> <<>>]
    /\ first = [i \in Shards |-> TRUE]
    /\ ch = [i \in Shards |-> <<>>]
    /\ closed = [i \in Shards |-> FALSE]
    /\ sent = [i \in Shards |-> <<>>]
    /\ reqs = [i \in Shards |-> <<>>]
    /\ si = 0
    /\ heads = <<>>
    /\ cur = NoEntry
    /\ mpc = "idle"
    /\ out = <<>>
    /\ outClosed = FALSE
    /\ ret = "none"
    /\ got = <<>>
    /\ reading = TRUE
    /\ lastOp = NoOp
    /\ uploads = [i \in Shards |-> {}]
    /\ live = {}

\* A facade built by NewSharded("...", "h%d", ..., NumShards).
Built ==
    /\ endpoint = <<104, Percent, 100>>
    /\ shards = NumShards
    /\ made = [i \in 1..NumShards |-> Sprintf(<<104, Percent, 100>>, i - 1)]
    /\ npc = "ok"

\* ------------------------------------------------------------ the backend
\* The page an honest backend returns for List(prefix, marker, "", limit):
\* the first limit stored keys strictly greater than marker, ascending.
HonestPage(i, m, limit) ==
    LET ks == Take(SortedSeq({k \in stores[i] : StrLess(m, k)}), limit)
    IN  [j \in 1..Len(ks) |-> Obj(ks[j], i)]

\* Every page of at most limit of the backend's objects, in any order,
\* repeats included, whatever the marker.
AnyPages(i, limit) ==
    UNION {[1..n -> {Obj(k, i) : k \in stores[i]}] : n \in 0..limit}

\* The number of failed List requests driver i has seen.
Fails(i) == Len(SelectSeq(reqs[i], LAMBDA r : ~r.ok))

\* The number of failed requests for a next page over all drivers (the
\* failed first request of a driver ends it and is not counted).
RECURSIVE RetriedUpTo(_)
RetriedUpTo(n) ==
    IF n < 0 THEN 0
    ELSE (IF pc[n] = "failed" THEN 0 ELSE Fails(n)) + RetriedUpTo(n - 1)

Retried == RetriedUpTo(NumShards - 1)

\* The possible results (objs, err) of store.List(prefix, m, "", limit):
\* an error other than notSupported, or a page.
ListResults(i, m, limit, mayFail) ==
    (IF mayFail THEN {[ok |-> FALSE, page |-> <<>>]} ELSE {})
    \cup {[ok |-> TRUE, page |-> p] :
            p \in IF backend = "honest" THEN {HonestPage(i, m, limit)}
                  ELSE AnyPages(i, limit)}

\* ----------------------------------------------------- the listing driver
\* The entry of the request log for a List request with marker m.
Req(m, r) == [marker |-> m, ok |-> r.ok, n |-> Len(r.page)]

\* A first request whose failure is retried like a later one.
FirstOutcomeRetries(ok) == IF ok THEN "emit" ELSE "list"

\* After the first List request: err != nil returns the error, otherwise
\* the producer task is started.
FirstOutcome(ok) == IF ok THEN "emit" ELSE "failed"

\* A driver that never tests the order of the keys.
OutOfOrderNever(i, key) == FALSE

\* The ordering test with < for <=: a repeated key passes.
OutOfOrderStrict(i, key) == ~first[i] /\ StrLess(key, lastkey[i])

\* The ordering test of the range loop: !first && key <= lastkey.
OutOfOrder(i, key) == ~first[i] /\ StrLeq(key, lastkey[i])

\* An outer loop that ends on a page shorter than the cap.
MorePagesFullOnly(page) == Len(page) >= maxResults

\* The condition of the outer loop: len(objs) > 0.
MorePages(page) == Len(page) > 0

\* A driver without the corner case.
CornerCaseNever(key) == FALSE

\* The corner-case test after a page: lastkey == "".
CornerCase(key) == key = EmptyKey

\* A next-page request that keeps the marker of the call.
ReqMarkerStale(i) == start

\* A retry that starts over from the marker of the call.
ReqMarkerRetryRestarts(i) ==
    IF ~reqs[i][Len(reqs[i])].ok THEN start ELSE marker[i]

\* A send that does not wait for room in the queue.
CanSendAlways(i) == TRUE

\* out <- obj can proceed: the queue of capacity maxResults has room.
CanSend(i) == Len(ch[i]) < maxResults

\* The marker of a request for a next page, first attempt or retry: the
\* variable marker, set to lastkey after the page before.
ReqMarker(i) == marker[i]

\* ListAll(store, prefix, m, followLink) up to its return: the first List
\* request; an error is returned with no channel, a page starts the
\* producer task on a fresh channel.
ListFirst(i, m) ==
    /\ pc[i] = "idle"
    /\ \E r \in ListResults(i, m, maxResults, TRUE) :
        /\ reqs' = [reqs EXCEPT ![i] = Append(@, Req(m, r))]
        /\ marker' = [marker EXCEPT ![i] = m]
        /\ objs' = [objs EXCEPT ![i] = r.page]
        /\ pc' = [pc EXCEPT ![i] = FirstOutcome(r.ok)]
    /\ UNCHANGED <<pos, lastkey, first, ch, closed, sent>>

\* The producer task inside the range loop, up to and including its next
\* channel send: the ordering test, the send, and what follows the last
\* object of a page (break on an empty lastkey, else marker = lastkey).
\* On an empty first page the loop is not entered and the channel closed.
Produce(i) ==
    /\ pc[i] = "emit"
    /\ IF ~MorePages(objs[i])
       THEN /\ closed' = [closed EXCEPT ![i] = TRUE]
            /\ pc' = [pc EXCEPT ![i] = "done"]
            /\ UNCHANGED <<marker, pos, lastkey, first, ch, sent>>
       ELSE /\ CanSend(i)
            /\ LET obj == objs[i][pos[i]]
                   key == obj.key
               IN  IF OutOfOrder(i, key)
                   THEN /\ ch' = [ch EXCEPT ![i] = Append(@, Nil)]
                        /\ sent' = [sent EXCEPT ![i] = Append(@, Nil)]
                        /\ closed' = [closed EXCEPT ![i] = TRUE]
                        /\ pc' = [pc EXCEPT ![i] = "done"]
                        /\ UNCHANGED <<marker, pos, lastkey, first>>
                   ELSE /\ lastkey' = [lastkey EXCEPT ![i] = key]
                        /\ ch' = [ch EXCEPT ![i] = Append(@, obj)]
                        /\ sent' = [sent EXCEPT ![i] = Append(@, obj)]
                        /\ first' = [first EXCEPT ![i] = FALSE]
                        /\ IF pos[i] < Len(objs[i])
                           THEN /\ pos' = [pos EXCEPT ![i] = @ + 1]
                                /\ UNCHANGED <<marker, closed, pc>>
                           ELSE IF CornerCase(key)
                           THEN /\ closed' = [closed EXCEPT ![i] = TRUE]
                                /\ pc' = [pc EXCEPT ![i] = "done"]
                                /\ UNCHANGED <<marker, pos>>
                           ELSE /\ marker' = [marker EXCEPT ![i] = key]
                                /\ pc' = [pc EXCEPT ![i] = "list"]
                                /\ UNCHANGED <<closed, pos>>
    /\ UNCHANGED <<objs, reqs>>

\* The producer task requesting the next page: a failed request is
\* repeated with the same marker after the sleep; a page restarts the
\* range loop, and an empty page ends the outer loop and closes the
\* channel.
Relist(i) ==
    /\ pc[i] = "list"
    /\ \E r \in ListResults(i, ReqMarker(i), maxResults, Retried < MaxFail) :
        /\ reqs' = [reqs EXCEPT ![i] = Append(@, Req(ReqMarker(i), r))]
        /\ IF ~r.ok
           THEN UNCHANGED <<objs, pos, closed, pc>>
           ELSE /\ objs' = [objs EXCEPT ![i] = r.page]
                /\ pos' = [pos EXCEPT ![i] = 1]
                /\ IF ~MorePages(r.page)
                   THEN /\ closed' = [closed EXCEPT ![i] = TRUE]
                        /\ pc' = [pc EXCEPT ![i] = "done"]
                   ELSE /\ pc' = [pc EXCEPT ![i] = "emit"]
                        /\ UNCHANGED closed
    /\ UNCHANGED <<marker, lastkey, first, ch, sent>>

\* A receive that a closed channel does not wake.
CanRecvOpenOnly(i) == ch[i] # <<>>

\* A receive from channel i can proceed: an item is buffered or the
\* channel is closed.
CanRecv(i) == ch[i] # <<>> \/ closed[i]

\* A receive that takes a closed channel for a drained one.
RecvValClosedFirst(i) == IF ch[i] # <<>> /\ ~closed[i] THEN Head(ch[i]) ELSE Nil

\* The value <-ch yields: the oldest buffered item, or nil once the
\* channel is closed and drained.
RecvVal(i) == IF ch[i] # <<>> THEN Head(ch[i]) ELSE Nil

\* ------------------------------------------ one driver and its consumer
\* A caller invokes ListAll on backend 0.
DriverCall ==
    /\ ListFirst(0, start)
    /\ UNCHANGED <<envVars, mergeVars, got, reading, facadeVars, newVars>>

DriverProduce ==
    /\ Produce(0)
    /\ UNCHANGED <<envVars, mergeVars, got, reading, facadeVars, newVars>>

DriverRelist ==
    /\ Relist(0)
    /\ UNCHANGED <<envVars, mergeVars, got, reading, facadeVars, newVars>>

\* The caller ranges over the channel ListAll returned.
DriverRecv ==
    /\ ch[0] # <<>>
    /\ got' = Append(got, Head(ch[0]))
    /\ ch' = [ch EXCEPT ![0] = Tail(@)]
    /\ UNCHANGED <<envVars, mergeVars, reading, facadeVars, newVars>>
    /\ UNCHANGED <<pc, marker, objs, pos, lastkey, first, closed, sent, reqs>>

NextDriver == DriverCall \/ DriverProduce \/ DriverRelist \/ DriverRecv

\* One driver over a backend that may answer List with any page.
InitDriverAny ==
    /\ Idle
    /\ Built
    /\ spc = "idle"
    /\ backend = "any"
    /\ stores = [i \in Shards |-> IF i = 0 THEN Key ELSE {}]
    /\ start \in Key

SpecDriverAny == InitDriverAny /\ [][NextDriver]_vars

\* One driver over a backend that honours the marker and the limit.
InitDriverHonest ==
    /\ Idle
    /\ Built
    /\ spc = "idle"
    /\ backend = "honest"
    /\ \E S \in SUBSET Key : stores = [i \in Shards |-> IF i = 0 THEN S ELSE {}]
    /\ start \in Key

SpecDriverHonest == InitDriverHonest /\ [][NextDriver]_vars

\* ------------------------------------------------------ the merge frontier
\* Less with the comparison turned round.
LessReversed(os, i, j) == StrLess(os[j + 1].o.key, os[i + 1].o.key)

\* nextObjects.Less(i, j) on the slice os, with Go's indices from 0.
Less(os, i, j) == StrLess(os[i + 1].o.key, os[j + 1].o.key)

\* nextObjects.Swap(i, j).
Swap(os, i, j) == [os EXCEPT ![i + 1] = os[j + 1], ![j + 1] = os[i + 1]]

\* container/heap's up(h, j): lift entry j while it is less than its parent.
RECURSIVE Up(_, _)
Up(os, j) ==
    IF j = 0 THEN os
    ELSE LET i == (j - 1) \div 2
         IN  IF ~Less(os, j, i) THEN os ELSE Up(Swap(os, i, j), i)

\* container/heap's down(h, i, n): sink entry i below its smaller child.
RECURSIVE Down(_, _, _)
Down(os, i, n) ==
    LET j1 == 2 * i + 1
    IN  IF j1 >= n THEN os
        ELSE LET j == IF j1 + 1 < n /\ Less(os, j1 + 1, j1) THEN j1 + 1 ELSE j1
             IN  IF ~Less(os, j, i) THEN os ELSE Down(Swap(os, i, j), j, n)

\* The loop of heap.Init: down(h, i, n) for i = n/2 - 1 down to 0.
RECURSIVE InitFrom(_, _)
InitFrom(os, i) ==
    IF i < 0 THEN os ELSE InitFrom(Down(os, i, Len(os)), i - 1)

\* A frontier left in the order the shards were opened.
HeapInitSkipped(os) == os

\* heap.Init(heads).
HeapInit(os) == InitFrom(os, (Len(os) \div 2) - 1)

\* heap.Push(heads, x): nextObjects.Push appends, then up(h, Len-1).
HeapPush(os, x) == Up(Append(os, x), Len(os))

\* heap.Pop(heads) before nextObjects.Pop: the root swapped to the end and
\* the new root sunk.
PopArranged(os) == Down(Swap(os, 0, Len(os) - 1), 0, Len(os) - 1)

\* The entry heap.Pop(heads) returns.
PopEntry(os) == PopArranged(os)[Len(os)]

\* heads.os after heap.Pop(heads).
PopRest(os) == SubSeq(PopArranged(os), 1, Len(os) - 1)

\* ------------------------------------------------------- sharded.ListAll
\* The loop body of lines 172-175 for shard si: ListAll on the shard; an
\* error makes sharded.ListAll return it.
ShardedOpen ==
    /\ spc = "open"
    /\ ListFirst(si, start)
    /\ IF pc'[si] = "failed"
       THEN spc' = "ret" /\ ret' = "err"
       ELSE spc' = "first" /\ UNCHANGED ret
    /\ UNCHANGED <<envVars, si, heads, cur, mpc, out, outClosed>>
    /\ UNCHANGED <<got, reading, facadeVars, newVars>>

\* A caller that puts whatever it received in the frontier.
PushFirstAlways(hs, o, i) == Append(hs, [o |-> o, ch |-> i])

\* if first != nil { heads.Push(nextKey{first, ch}) }.
PushFirst(hs, o, i) == IF o.nil THEN hs ELSE Append(hs, [o |-> o, ch |-> i])

\* first := <-ch for shard si and the push of a non-nil head; after the
\* last shard heap.Init, the output channel, the merge task and the return.
ShardedFirst ==
    /\ spc = "first"
    /\ CanRecv(si)
    /\ LET o == RecvVal(si)
           hs == PushFirst(heads, o, si)
       IN  /\ ch' = [ch EXCEPT ![si] = IF @ = <<>> THEN @ ELSE Tail(@)]
           /\ IF si + 1 < NumShards
              THEN /\ si' = si + 1
                   /\ spc' = "open"
                   /\ heads' = hs
                   /\ UNCHANGED <<mpc, ret>>
              ELSE /\ heads' = HeapInit(hs)
                   /\ spc' = "ret"
                   /\ ret' = "ok"
                   /\ mpc' = "pop"
                   /\ UNCHANGED si
    /\ UNCHANGED <<envVars, cur, out, outClosed, got, reading, facadeVars, newVars>>
    /\ UNCHANGED <<pc, marker, objs, pos, lastkey, first, closed, sent, reqs>>

\* The merge task at the head of its loop: heap.Pop while the frontier is
\* not empty, close(out) when it is.
MergePop ==
    /\ mpc = "pop"
    /\ IF heads = <<>>
       THEN /\ outClosed' = TRUE
            /\ mpc' = "done"
            /\ UNCHANGED <<heads, cur>>
       ELSE /\ cur' = PopEntry(heads)
            /\ heads' = PopRest(heads)
            /\ mpc' = "send"
            /\ UNCHANGED outClosed
    /\ UNCHANGED <<envVars, driverVars, spc, si, out, ret, got, reading, facadeVars, newVars>>

\* A send that drops the object when the output queue is full.
MergeSendDropping ==
    /\ mpc = "send"
    /\ out' = IF Len(out) < outCap THEN Append(out, cur.o) ELSE out
    /\ mpc' = "recv"
    /\ UNCHANGED <<envVars, driverVars, spc, si, heads, cur, outClosed, ret>>
    /\ UNCHANGED <<got, reading, facadeVars, newVars>>

\* A send that skips an object whose key was emitted just before.
MergeSendDedup ==
    /\ mpc = "send"
    /\ Len(out) < outCap
    /\ LET e == got \o out
       IN  out' = IF e # <<>> /\ e[Len(e)].key = cur.o.key
                  THEN out ELSE Append(out, cur.o)
    /\ mpc' = "recv"
    /\ UNCHANGED <<envVars, driverVars, spc, si, heads, cur, outClosed, ret>>
    /\ UNCHANGED <<got, reading, facadeVars, newVars>>

\* out <- n.o: blocks while the output queue is full.
MergeSend ==
    /\ mpc = "send"
    /\ Len(out) < outCap
    /\ out' = Append(out, cur.o)
    /\ mpc' = "recv"
    /\ UNCHANGED <<envVars, driverVars, spc, si, heads, cur, outClosed, ret>>
    /\ UNCHANGED <<got, reading, facadeVars, newVars>>

\* o := <-n.ch and the push of a non-nil o.
MergeRecv ==
    /\ mpc = "recv"
    /\ CanRecv(cur.ch)
    /\ LET o == RecvVal(cur.ch)
       IN  heads' = IF o.nil THEN heads
                    ELSE HeapPush(heads, [o |-> o, ch |-> cur.ch])
    /\ ch' = [ch EXCEPT ![cur.ch] = IF @ = <<>> THEN @ ELSE Tail(@)]
    /\ mpc' = "pop"
    /\ UNCHANGED <<envVars, spc, si, cur, out, outClosed, ret, got, reading, facadeVars, newVars>>
    /\ UNCHANGED <<pc, marker, objs, pos, lastkey, first, closed, sent, reqs>>

\* The producer task of shard i.
ShardProduce(i) ==
    /\ Produce(i)
    /\ UNCHANGED <<envVars, mergeVars, got, reading, facadeVars, newVars>>

ShardRelist(i) ==
    /\ Relist(i)
    /\ UNCHANGED <<envVars, mergeVars, got, reading, facadeVars, newVars>>

\* The caller receives one object from the merged channel.
Receive ==
    /\ reading
    /\ out # <<>>
    /\ got' = Append(got, Head(out))
    /\ out' = Tail(out)
    /\ UNCHANGED <<envVars, driverVars, spc, si, heads, cur, mpc, outClosed, ret>>
    /\ UNCHANGED <<reading, facadeVars, newVars>>

\* The caller stops receiving from the merged channel for good.
StopReading ==
    /\ reading
    /\ ret = "ok"
    /\ reading' = FALSE
    /\ UNCHANGED <<envVars, driverVars, mergeVars, got, facadeVars, newVars>>

NextSharded ==
    \/ ShardedOpen
    \/ ShardedFirst
    \/ MergePop
    \/ MergeSend
    \/ MergeRecv
    \/ \E i \in Shards : ShardProduce(i)
    \/ \E i \in Shards : ShardRelist(i)
    \/ Receive

\* The goroutines: the caller of sharded.ListAll, the merge task, the
\* producer of each shard, and the consumer of the merged output.
CallerTask == ShardedOpen \/ ShardedFirst

MergeTask == MergePop \/ MergeSend \/ MergeRecv

ProducerTask(i) == ShardProduce(i) \/ ShardRelist(i)

\* The Go scheduler runs every goroutine that stays runnable, and the
\* consumer keeps receiving.
Fairness ==
    /\ WF_vars(CallerTask)
    /\ WF_vars(MergeTask)
    /\ \A i \in Shards : WF_vars(ProducerTask(i))
    /\ WF_vars(Receive)

\* Every way to give each non-empty key to at most one shard (an honest
\* backend never lists the empty key: no marker is below it).
DisjointStores ==
    {[i \in Shards |-> {k \in Key \ {EmptyKey} : f[k] = i}] :
        f \in [Key \ {EmptyKey} -> Shards \cup {-1}]}

\* sharded.ListAll over honest backends with disjoint key sets.
Init ==
    /\ Idle
    /\ Built
    /\ spc = "open"
    /\ backend = "honest"
    /\ stores \in DisjointStores
    /\ start \in {KeyOf(0), KeyOf(1)}

Spec == Init /\ [][NextSharded]_vars

\* sharded.ListAll from the empty marker over honest backends of which the
\* first two share out all the keys and the others hold none.
InitFair ==
    /\ Idle
    /\ Built
    /\ spc = "open"
    /\ backend = "honest"
    /\ stores \in {s \in DisjointStores : s[0] \cup s[1] = Key \ {EmptyKey}}
    /\ start = EmptyKey

\* The same under fair scheduling.
SpecFair == InitFair /\ [][NextSharded]_vars /\ Fairness

\* The same, with a caller that may abandon the listing.
NextAbandon == NextSharded \/ StopReading

SpecAbandon == Init /\ [][NextAbandon]_vars

\* The key held by more than one shard: the last of Key, which lies between
\* two others in key order.
DupKey == KeyOf(NumKeys - 1)

\* Every way to put DupKey on the first two shards or on the first three,
\* and each other non-empty key on one shard.
DupStores ==
    {[i \in Shards |-> {k \in Key \ {EmptyKey, DupKey} : f[k] = i}
                          \cup (IF i \in D THEN {DupKey} ELSE {})] :
        f \in [Key \ {EmptyKey, DupKey} -> Shards],
        D \in {{0, 1}, {0, 1, 2}}}

\* sharded.ListAll over honest backends of which several hold DupKey.
InitDup ==
    /\ Idle
    /\ Built
    /\ spc = "open"
    /\ backend = "honest"
    /\ stores \in DupStores
    /\ start = EmptyKey

SpecDup == InitDup /\ [][NextSharded]_vars

\* Enough keys above the empty marker to outrun a shard queue: one for the
\* caller's first receive, maxResults to fill the queue, and one more.
LongKeys == {KeyOf(n) : n \in 1..(maxResults + 2)}

\* sharded.ListAll over honest backends of which the first holds up to
\* maxResults + 2 keys and the others none.
InitLong ==
    /\ Idle
    /\ Built
    /\ spc = "open"
    /\ backend = "honest"
    /\ stores \in {[i \in Shards |-> IF i = 0 THEN S ELSE {}] : S \in SUBSET LongKeys}
    /\ start = EmptyKey

SpecLong == InitLong /\ [][NextSharded]_vars

\* sharded.ListAll over backends that may answer List with any page.
InitShardedAny ==
    /\ Idle
    /\ Built
    /\ spc = "open"
    /\ backend = "any"
    /\ stores \in DisjointStores
    /\ start = EmptyKey

SpecShardedAny == InitShardedAny /\ [][NextSharded]_vars

\* ------------------------------------------------------------ the facade
\* What a backend does with the calls the facade forwards to it.
BackendPut(i, key) == stores' = [stores EXCEPT ![i] = @ \cup {key}]

BackendDelete(i, key) == stores' = [stores EXCEPT ![i] = @ \ {key}]

BackendHas(i, key) == key \in stores[i]

BackendCreateUpload(i, key) == uploads' = [uploads EXCEPT ![i] = @ \cup {key}]

BackendAbortUpload(i, key) == uploads' = [uploads EXCEPT ![i] = @ \ {key}]

\* Completing an open upload stores the object; without one it fails.
BackendCompleteUpload(i, key) ==
    IF key \in uploads[i]
    THEN /\ stores' = [stores EXCEPT ![i] = @ \cup {key}]
         /\ uploads' = [uploads EXCEPT ![i] = @ \ {key}]
    ELSE UNCHANGED <<stores, uploads>>

\* The record of a forwarded call.
Called(op, key, i, found) ==
    lastOp' = [op |-> op, key |-> key, shard |-> i, found |-> found]

listingVars == <<backend, start, driverVars, mergeVars, got, reading>>

\* sharded.Head: s.pick(key).Head(key).
FacadeHead(key) ==
    /\ Called("Head", key, pick(key), BackendHas(pick(key), key))
    /\ UNCHANGED <<stores, uploads, live, listingVars, newVars>>

\* sharded.Get: s.pick(key).Get(key, off, limit).
FacadeGet(key) ==
    /\ Called("Get", key, pick(key), BackendHas(pick(key), key))
    /\ UNCHANGED <<stores, uploads, live, listingVars, newVars>>

\* sharded.Put: s.pick(key).Put(key, body).
FacadePut(key) ==
    /\ BackendPut(pick(key), key)
    /\ Called("Put", key, pick(key), TRUE)
    /\ live' = live \cup {key}
    /\ UNCHANGED <<uploads, listingVars, newVars>>

\* A Delete forwarded to the first shard whatever the key.
FacadeDeleteFirstShard(key) ==
    /\ BackendDelete(0, key)
    /\ Called("Delete", key, 0, BackendHas(0, key))
    /\ live' = live \ {key}
    /\ UNCHANGED <<uploads, listingVars, newVars>>

\* sharded.Delete: s.pick(key).Delete(key).
FacadeDelete(key) ==
    /\ BackendDelete(pick(key), key)
    /\ Called("Delete", key, pick(key), BackendHas(pick(key), key))
    /\ live' = live \ {key}
    /\ UNCHANGED <<uploads, listingVars, newVars>>

\* sharded.CreateMultipartUpload: s.pick(key).CreateMultipartUpload(key).
FacadeCreateMultipartUpload(key) ==
    /\ BackendCreateUpload(pick(key), key)
    /\ Called("CreateMultipartUpload", key, pick(key), TRUE)
    /\ UNCHANGED <<stores, live, listingVars, newVars>>

\* sharded.UploadPart: s.pick(key).UploadPart(key, uploadID, num, body).
FacadeUploadPart(key) ==
    /\ Called("UploadPart", key, pick(key), key \in uploads[pick(key)])
    /\ UNCHANGED <<stores, uploads, live, listingVars, newVars>>

\* sharded.AbortUpload: s.pick(key).AbortUpload(key, uploadID).
FacadeAbortUpload(key) ==
    /\ BackendAbortUpload(pick(key), key)
    /\ Called("AbortUpload", key, pick(key), key \in uploads[pick(key)])
    /\ UNCHANGED <<stores, live, listingVars, newVars>>

\* sharded.CompleteUpload: s.pick(key).CompleteUpload(key, uploadID, parts).
FacadeCompleteUpload(key) ==
    /\ BackendCompleteUpload(pick(key), key)
    /\ Called("CompleteUpload", key, pick(key), key \in uploads[pick(key)])
    /\ live' = IF key \in uploads[pick(key)] THEN live \cup {key} ELSE live
    /\ UNCHANGED <<listingVars, newVars>>

NextFacade ==
    \/ \E key \in Key : FacadeHead(key)
    \/ \E key \in Key : FacadeGet(key)
    \/ \E key \in Key : FacadePut(key)
    \/ \E key \in Key : FacadeDelete(key)
    \/ \E key \in Key : FacadeCreateMultipartUpload(key)
    \/ \E key \in Key : FacadeUploadPart(key)
    \/ \E key \in Key : FacadeAbortUpload(key)
    \/ \E key \in Key : FacadeCompleteUpload(key)

\* A facade over empty backends.
InitFacade ==
    /\ Idle
    /\ Built
    /\ spc = "idle"
    /\ backend = "honest"
    /\ stores = [i \in Shards |-> {}]
    /\ start = EmptyKey

SpecFacade == InitFacade /\ [][NextFacade]_vars

\* ------------------------------------------------------- the constructor
\* The longest endpoint template tried.
TemplateLen == 3

\* The bytes of a template: 'h', '%', 'd', 'T'.
TemplateBytes == {104, Percent, 100, 84}

Templates == UNION {[1..n -> TemplateBytes] : n \in 0..TemplateLen}

\* The shard counts tried.
ShardCounts == (0 - 1)..NumShards

\* CreateStorage(name, ep, ak, sk, token): the handle of the store at ep, or
\* an error.
CreateStorage(ep, ok) == IF ok THEN [err |-> FALSE, store |-> ep]
                               ELSE [err |-> TRUE, store |-> <<>>]

\* stores := make([]ObjectStorage, shards): a negative length panics.
NewShardedMake ==
    /\ npc = "call"
    /\ npc' = IF shards < 0 THEN "panic" ELSE "loop"
    /\ UNCHANGED <<endpoint, shards, made, lastOp>>
    /\ UNCHANGED <<envVars, driverVars, mergeVars, got, reading, uploads, live>>

\* One turn of the loop of NewSharded, or its return after the last turn.
NewShardedLoop ==
    /\ npc = "loop"
    /\ IF Len(made) >= shards
       THEN npc' = "ok" /\ UNCHANGED made
       ELSE LET ep == Sprintf(endpoint, Len(made))
            IN  IF SuffixIsExtra(ep)
                THEN npc' = "err" /\ UNCHANGED made
                ELSE \E ok \in BOOLEAN :
                        LET r == CreateStorage(ep, ok)
                        IN  IF r.err
                            THEN npc' = "err" /\ UNCHANGED made
                            ELSE made' = Append(made, r.store) /\ UNCHANGED npc
    /\ UNCHANGED <<endpoint, shards, lastOp>>
    /\ UNCHANGED <<envVars, driverVars, mergeVars, got, reading, uploads, live>>

\* sharded.Head on the facade NewSharded returned: s.pick(key).Head(key).
NewShardedHead(key) ==
    /\ npc = "ok"
    /\ IF PickPanics(Len(made))
       THEN npc' = "panic" /\ UNCHANGED lastOp
       ELSE \E found \in BOOLEAN :
                Called("Head", key, pickN(key, Len(made)), found) /\ UNCHANGED npc
    /\ UNCHANGED <<endpoint, shards, made>>
    /\ UNCHANGED <<envVars, driverVars, mergeVars, got, reading, uploads, live>>

NextNew ==
    \/ NewShardedMake
    \/ NewShardedLoop
    \/ \E key \in Key : NewShardedHead(key)

\* Before a call of NewSharded with any template and any shard count.
InitNew ==
    /\ Idle
    /\ spc = "idle"
    /\ backend = "honest"
    /\ stores = [i \in Shards |-> {}]
    /\ start = EmptyKey
    /\ endpoint \in Templates
    /\ shards \in ShardCounts
    /\ made = <<>>
    /\ npc = "call"

SpecNew == InitNew /\ [][NextNew]_vars

\* ================================================================ claims
\* Everything the merge task has put on the merged channel, in order.
Delivered == got \o out

\* The number of positions of sequence s that hold x.
Count(s, x) == Cardinality({j \in 1..Len(s) : s[j] = x})

\* The objects of a sequence, as a set.
Range(s) == {s[j] : j \in 1..Len(s)}

\* The keys an honest backend i lists from the marker of the call.
Listable(i) == {k \in stores[i] : StrLess(start, k)}

\* C1: with pairwise disjoint shard key sets and strictly increasing
\* per-shard listings, the objects put on the output of sharded.ListAll are
\* strictly increasing by key at every moment of every interleaving.
C1_MergedStrictlyIncreasing ==
    /\ \A i \in Shards : StrictlyIncreasing(KeysOf(sent[i]))
    /\ StrictlyIncreasing(KeysOf(Delivered))
    /\ \A j \in 1..Len(Delivered) : ~Delivered[j].nil

\* C1 witness: a finished merge that interleaved objects of all shards.
C1_Witness ==
    /\ outClosed
    /\ Len(Delivered) >= NumShards
    /\ \A i \in Shards : \E j \in 1..Len(Delivered) : Delivered[j].shard = i
    /\ Delivered[1].shard # 0

\* C2: when the output is drained to its close and no shard reported an
\* error, every driver has finished and every object a driver emitted was
\* delivered exactly once, and nothing else was delivered.
C2_DeliveredIsUnion ==
    (outClosed /\ out = <<>> /\ \A i \in Shards : Nil \notin Range(sent[i]))
    => /\ \A i \in Shards : pc[i] = "done" /\ ch[i] = <<>>
       /\ \A i \in Shards : \A o \in Range(sent[i]) : Count(got, o) = 1
       /\ Range(got) = UNION {Range(sent[i]) : i \in Shards}
       /\ \A i \in Shards : {o.key : o \in Range(sent[i])} = Listable(i)

\* C2 witness: a drained, closed output with objects of every shard, one
\* shard having been asked for more than one page.
C2_Witness ==
    /\ outClosed
    /\ out = <<>>
    /\ \A i \in Shards : sent[i] # <<>>
    /\ \E i \in Shards : Len(reqs[i]) >= 2

\* C3: whatever pages the backend returns, the non-nil objects the driver
\* sends are strictly increasing by key; a key not above the one before is
\* not sent, nil is sent in its place, the channel is closed, and after
\* the nil nothing more is sent and no List request is issued.
C3_StateOrder ==
    /\ StrictlyIncreasing(KeysOf(sent[0]))
    /\ \A j \in 1..Len(sent[0]) :
          sent[0][j].nil => j = Len(sent[0]) /\ closed[0] /\ pc[0] = "done"

C3_StepOrder ==
    /\ (pc[0] = "emit" /\ MorePages(objs[0]) /\ pc'[0] # pc[0]
          /\ ~first[0] /\ StrLeq(objs[0][pos[0]].key, lastkey[0]))
       => sent'[0] = Append(sent[0], Nil) /\ closed'[0] /\ reqs' = reqs
    /\ Nil \in Range(sent[0]) => sent' = sent /\ reqs' = reqs /\ closed' = closed

C3_DriverOrderValidated == [](C3_StateOrder) /\ [][C3_StepOrder]_vars

\* C3 witness: an ordering error met on a later page, after two objects
\* were sent.
C3_Witness ==
    /\ Len(sent[0]) = 3
    /\ sent[0][3].nil
    /\ Len(reqs[0]) >= 2

\* C4: over a backend that honours marker and limit, a finished driver has
\* sent exactly the stored keys above the marker of the call, ascending,
\* each once, no nil, and has closed its channel; each request for a next
\* page carries the key sent last.
C4_HonestListingComplete ==
    /\ pc[0] = "done" =>
          /\ KeysOf(sent[0]) = SortedSeq(Listable(0))
          /\ Len(sent[0]) = Cardinality(Listable(0))
          /\ closed[0]
    /\ pc[0] = "list" => marker[0] = sent[0][Len(sent[0])].key
    /\ \A j \in 2..Len(reqs[0]) : reqs[0][j].marker \in {o.key : o \in Range(sent[0])}
    /\ pc[0] \in {"emit", "list", "done"} => reqs[0][1].marker = start

\* C4 witness: a listing of three keys finished over more than one page.
C4_Witness ==
    /\ pc[0] = "done"
    /\ Len(sent[0]) = 3
    /\ Len(SelectSeq(reqs[0], LAMBDA r : r.ok /\ r.n > 0)) >= 2

\* C5 as claimed: a fetched page shorter than the cap, or empty, is the
\* last request the driver issues.
C5_ShortPageEndsListing ==
    \A j \in 1..Len(reqs[0]) :
        (reqs[0][j].ok /\ reqs[0][j].n < maxResults) => j = Len(reqs[0])

\* C5 amended: only an empty page ends the listing (the driver then closes
\* its channel and issues no further request); after a non-empty page,
\* however short, that was sent in order and does not end in the empty
\* key, the driver goes on to request the page after the last key sent.
C5_EmptyPageEndsListing ==
    /\ \A j \in 1..Len(reqs[0]) :
          (reqs[0][j].ok /\ reqs[0][j].n = 0)
             => /\ j = Len(reqs[0])
                /\ pc[0] \in {"emit", "done"}
                /\ pc[0] = "emit" => j = 1 /\ sent[0] = <<>>
                /\ pc[0] = "done" => closed[0]
    /\ (/\ reqs[0] # <<>>
        /\ reqs[0][Len(reqs[0])].ok
        /\ reqs[0][Len(reqs[0])].n > 0
        /\ pc[0] # "emit"
        /\ Nil \notin Range(sent[0])
        /\ lastkey[0] # EmptyKey)
       => pc[0] = "list" /\ marker[0] = lastkey[0]

\* C5 witness: a page of one object, below the cap, was followed by a
\* request for the page after it, which came back empty and ended the
\* listing.
C5_Witness ==
    /\ pc[0] = "done"
    /\ Len(reqs[0]) = 2
    /\ reqs[0][1].ok /\ reqs[0][1].n = 1 /\ reqs[0][1].n < maxResults
    /\ reqs[0][2].ok /\ reqs[0][2].n = 0
    /\ reqs[0][2].marker = sent[0][1].key

\* C6 as claimed: when a shard's driver signalled an ordering error, the
\* merged output is not closed without the error signal having been put
\* on it.
C6_OrderingErrorReachesConsumer ==
    (outClosed /\ \E i \in Shards : Nil \in Range(sent[i]))
       => Nil \in Range(Delivered)

\* C7: a failed request for a next page is repeated with the same marker
\* and is not surfaced: no error return, no nil, the channel stays open
\* while the request keeps failing; and the finished listing is the one
\* of a run without failures.
C7_RetryKeepsMarker ==
    /\ \A j \in 2..(Len(reqs[0]) - 1) :
          ~reqs[0][j].ok => reqs[0][j + 1].marker = reqs[0][j].marker
    /\ Len(reqs[0]) >= 2 => pc[0] # "failed"
    /\ (Len(reqs[0]) >= 2 /\ ~reqs[0][Len(reqs[0])].ok)
          => pc[0] = "list" /\ ~closed[0]
    /\ Nil \notin Range(sent[0])
    /\ pc[0] = "done" => KeysOf(sent[0]) = SortedSeq(Listable(0))

\* C7 witness: a listing that finished after a failed request for the
\* second page.
C7_Witness ==
    /\ pc[0] = "done"
    /\ Fails(0) >= 1
    /\ Len(sent[0]) = 3
    /\ ~reqs[0][2].ok

\* C8 as claimed: every failed List request is terminal: ListAll has
\* returned the error and the request is the last one.
C8_EveryFailureTerminal ==
    \A i \in Shards : \A j \in 1..Len(reqs[i]) :
        ~reqs[i][j].ok => pc[i] = "failed" /\ j = Len(reqs[i])

\* C8 amended: a failure of the first List request is terminal: ListAll
\* returns the error with no channel and no producer task, no request
\* follows, and sharded.ListAll returns an error with no merged channel
\* and no merge task.
C8_FirstFailureTerminal ==
    /\ \A i \in Shards :
          (reqs[i] # <<>> /\ ~reqs[i][1].ok)
             => /\ pc[i] = "failed"
                /\ Len(reqs[i]) = 1
                /\ sent[i] = <<>> /\ ch[i] = <<>> /\ ~closed[i]
                /\ ret = "err" /\ spc = "ret" /\ si = i
    /\ ret = "err"
          => /\ pc[si] = "failed"
             /\ mpc = "idle" /\ out = <<>> /\ ~outClosed /\ got = <<>>
             /\ \A i \in Shards : i > si => pc[i] = "idle"

\* C8 witness: sharded.ListAll returned an error at its second shard,
\* after the first shard's producer task was started.
C8_Witness ==
    /\ ret = "err"
    /\ si = 1
    /\ pc[0] \in {"emit", "list", "done"}

\* C9: pick yields a shard index; every stored key and every open upload is
\* on the shard pick gives its key and on no other; a Head or Get of a key
\* put and not deleted since finds it; each call reaches pick(key) and
\* changes no other shard.
C9_State ==
    /\ \A k \in Key : pick(k) \in Shards
    /\ \A k \in Key : \A i \in Shards :
          k \in stores[i] <=> (k \in live /\ i = pick(k))
    /\ \A k \in Key : \A i \in Shards : k \in uploads[i] => i = pick(k)
    /\ (lastOp.op \in {"Head", "Get"} /\ lastOp.key \in live) => lastOp.found
    /\ lastOp.op # "none" => lastOp.shard = pick(lastOp.key)

C9_Step ==
    \A i \in Shards :
        (stores'[i] # stores[i] \/ uploads'[i] # uploads[i])
           => i = pick(lastOp'.key)

C9_RoutingKeepsShardsDisjoint == [](C9_State) /\ [][C9_Step]_vars

\* C9 witness: keys live on two different shards, another key deleted
\* again, and a Head that found its key.
C9_Witness ==
    /\ \E k1, k2 \in live : pick(k1) # pick(k2)
    /\ \E k \in Key \ live : \A i \in Shards : k \notin stores[i]
    /\ live # {}
    /\ lastOp.op = "Head"
    /\ lastOp.found
    /\ pick(lastOp.key) # 0

\* The merge task is at its send with the output queue full and a caller
\* that has stopped receiving.
MergeBlocked == ~reading /\ mpc = "send" /\ Len(out) >= outCap

\* Producer i is at its send with its queue full while the merge task,
\* its only receiver, is blocked.
ProducerBlocked(i) ==
    /\ MergeBlocked
    /\ pc[i] = "emit"
    /\ MorePages(objs[i])
    /\ Len(ch[i]) >= maxResults

\* C10 as claimed: with a caller that has stopped receiving, neither the
\* merge task nor a producer task is held at a queue send it cannot make.
C10_NoTaskBlockedOnSend ==
    ~MergeBlocked /\ \A i \in Shards : ~ProducerBlocked(i)

\* C10 amended: the tasks are never cancelled, and once the caller has
\* stopped receiving nothing leaves the output queue: a merge task that
\* finds the queue full stays at its send, the object in hand undelivered
\* and the output never closed.
C10_AbandonedMergeStaysBlocked ==
    [][/\ ~reading => (~reading' /\ got' = got /\ Len(out') >= Len(out))
       /\ MergeBlocked => (MergeBlocked' /\ out' = out /\ cur' = cur /\ ~outClosed')
      ]_vars

\* C10 witness: the merge task blocked with an object in hand.
C10_Witness ==
    /\ MergeBlocked
    /\ ~cur.o.nil
    /\ Len(got) = 0

\* The objects of sequence s that shard i listed, in order.
FromShard(s, i) == SelectSeq(s, LAMBDA o : o.shard = i)

\* The object of shard i the merge task has popped and not yet sent.
InHand(i) == IF mpc = "send" /\ cur.ch = i THEN <<cur.o>> ELSE <<>>

\* The head of shard i waiting in the frontier.
InFrontier(i) ==
    LET es == SelectSeq(heads, LAMBDA e : e.ch = i)
    IN  [j \in 1..Len(es) |-> es[j].o]

\* C11: neither queue ever holds more than its capacity, and nothing sent
\* is dropped, overwritten or reordered: for each shard, what has come out
\* of the merged queue or waits in it, then the object in the merge task's
\* hand, then the head in the frontier, then what waits in the shard's
\* queue is exactly what the shard's producer sent, in the order sent.
C11_QueuesBoundedFifo ==
    /\ \A i \in Shards : Len(ch[i]) <= maxResults
    /\ Len(out) <= outCap
    /\ \A i \in Shards :
          FromShard(Delivered, i) \o InHand(i) \o InFrontier(i) \o ch[i] = sent[i]

\* C11 witness: a producer held at its send by a full queue, its next
\* object unsent.
C11_Witness ==
    \E i \in Shards :
        /\ pc[i] = "emit"
        /\ MorePages(objs[i])
        /\ Len(ch[i]) = maxResults
        /\ Len(sent[i]) = maxResults


\* The endpoints the template yields for the shard indices, in order.
Endpoints == [i \in 1..shards |-> Sprintf(endpoint, i - 1)]

\* "%!": the mark of every error fmt writes into its output.
HasFmtError(ep) == \E j \in 1..(Len(ep) - 1) : ep[j] = 37 /\ ep[j + 1] = 33

\* The substitution fails: an endpoint carries a formatting error.
SubstitutionFails == \E i \in 1..shards : HasFmtError(Endpoints[i])

\* The expansion yields the same endpoint for two different indices.
RepeatsEndpoint ==
    \E i, j \in 1..shards : i # j /\ Endpoints[i] = Endpoints[j]

\* C12: whenever the endpoint template does not expand to a distinct,
\* well-formed endpoint for every shard index, because the substitution fails
\* or because two indices get the same endpoint, NewSharded returns an error
\* and creates no shard store.
C12_BadTemplateRejected ==
    (/\ shards >= 1
     /\ SubstitutionFails \/ RepeatsEndpoint
     /\ npc \notin {"call", "loop"}) =>
        /\ npc = "err"
        /\ made = <<>>


\* C18: every facade NewSharded returns without error has a shard set of the
\* fixed size N >= 1 asked for, which stays as built, so pick never takes a
\* remainder by zero; for a shard count below 1 no usable facade is returned.
C18_FacadeHasShards ==
    /\ npc = "ok" => (shards >= 1 /\ made = Endpoints)
    /\ npc = "panic" => shards < 0


\* The first page the backend returned holds exactly one object, and its key
\* is the empty string.
FirstPageIsEmptyKey ==
    /\ Len(reqs[0]) >= 1
    /\ reqs[0][1].ok
    /\ reqs[0][1].n = 1
    /\ IF sent[0] = <<>> THEN objs[0][1].key = EmptyKey
                         ELSE sent[0][1].key = EmptyKey

\* C13: with an empty starting marker and a first page of exactly one
\* object whose key is the empty string, the driver emits that object, closes
\* its output and issues no second List request.
C13_EmptyKeyEndsListing ==
    (start = EmptyKey /\ FirstPageIsEmptyKey) =>
        /\ Len(reqs[0]) = 1
        /\ \/ pc[0] = "emit" /\ sent[0] = <<>> /\ ~closed[0] /\ CanSend(0)
           \/ pc[0] = "done" /\ sent[0] = <<Obj(EmptyKey, 0)>> /\ closed[0]

\* C13 witness: the driver has finished after that single page.
C13_Witness ==
    /\ start = EmptyKey
    /\ FirstPageIsEmptyKey
    /\ pc[0] = "done"
    /\ got = <<Obj(EmptyKey, 0)>>


\* Shard i's listing sequence is empty: it holds no key above the marker.
EmptyListing(i) == Listable(i) = {}

\* C14: a shard whose listing sequence is empty is never put in the merge
\* frontier and contributes no object; neither the caller nor the merge task
\* is ever held up waiting for it; and when the output is closed the objects
\* of the other shards have all been delivered in key order.
C14_EmptyShardOmitted ==
    /\ \A i \in Shards : EmptyListing(i) =>
          /\ InFrontier(i) = <<>>
          /\ InHand(i) = <<>>
          /\ FromShard(Delivered, i) = <<>>
          /\ sent[i] = <<>>
          /\ (spc = "first" /\ si = i) =>
                (closed[i] \/ (pc[i] = "emit" /\ ~MorePages(objs[i])))
          /\ mpc = "recv" => cur.ch # i
    /\ (outClosed /\ \E i \in Shards : EmptyListing(i)) =>
          KeysOf(Delivered) = SortedSeq(UNION {Listable(j) : j \in Shards})

\* C14 witness: the merged output is closed after delivering the objects of
\* two shards while a third, which holds a key but none above the marker,
\* listed nothing.
C14_Witness ==
    /\ outClosed
    /\ \E i, j, k \in Shards :
          /\ EmptyListing(i) /\ stores[i] # {}
          /\ j # k
          /\ FromShard(Delivered, j) # <<>>
          /\ FromShard(Delivered, k) # <<>>


\* Every producer has finished, the frontier is empty and the merged
\* output is closed.
ListingDone ==
    /\ \A i \in Shards : pc[i] = "done" /\ closed[i]
    /\ heads = <<>>
    /\ mpc = "done"
    /\ outClosed

\* C15: over backends that hold finitely many keys and honour the marker,
\* when no first request fails, every next-page request succeeds after
\* finitely many failures and the consumer keeps receiving, then under fair
\* scheduling every producer terminates, the frontier becomes empty and the
\* output of sharded.ListAll is closed.
C15_ListingTerminates ==
    [](\A i \in Shards : pc[i] # "failed") => <>ListingDone

\* C15 witness: the listing is done after a failed next-page request was
\* retried, two shards produced objects and the consumer received them all.
C15_Witness ==
    /\ ListingDone
    /\ Retried > 0
    /\ sent[0] # <<>>
    /\ sent[1] # <<>>
    /\ out = <<>>
    /\ Len(got) = NumKeys - 1


\* Shard i's stream is retired: it has ended and the merge task has taken
\* everything it carried.
Retired(i) ==
    /\ pc[i] = "done"
    /\ ch[i] = <<>>
    /\ InFrontier(i) = <<>>
    /\ InHand(i) = <<>>
    /\ ~(mpc = "recv" /\ cur.ch = i)

\* The keys listed by the shards and not yet emitted.
NotEmitted == UNION {Listable(i) : i \in Shards} \ Range(KeysOf(Delivered))

\* C16: the frontier holds at most one entry per shard stream, none for a
\* retired stream and at most N in all; at the head of the merge loop every
\* stream that is not retired has its entry there; and an object removed
\* from the frontier for emission has the smallest key not yet emitted
\* across all shards.
C16_FrontierHoldsSmallest ==
    /\ Len(heads) <= NumShards
    /\ \A i \in Shards :
          /\ Len(InFrontier(i)) <= 1
          /\ (pc[i] = "done" /\ ch[i] = <<>> /\ sent[i] = FromShard(Delivered, i))
                => InFrontier(i) = <<>>
          /\ mpc = "pop" => (Len(InFrontier(i)) = 1 \/ Retired(i))
    /\ mpc = "send" =>
          /\ cur.o.key \in NotEmitted
          /\ \A k \in NotEmitted : StrLeq(cur.o.key, k)

\* C16 witness: after an emission, the merge task has removed the next
\* object of a shard for emission while another shard waits in the frontier
\* and a third is retired.
C16_Witness ==
    /\ mpc = "send"
    /\ Delivered # <<>>
    /\ FromShard(Delivered, cur.ch) # <<>>
    /\ heads # <<>>
    /\ \E i \in Shards : Retired(i)


\* The shards that list key k.
Holders(k) == {i \in Shards : k \in Listable(i)}

\* C17: a key present on two or more shards is not de-duplicated: the
\* output is non-decreasing by key at every moment, so objects of one key
\* are adjacent, and a finished listing has delivered exactly one object of
\* that key per shard holding it.
C17_DuplicatesKeptAdjacent ==
    /\ \A a, b \in 1..Len(Delivered) :
          a < b => StrLeq(Delivered[a].key, Delivered[b].key)
    /\ \A a, b, c \in 1..Len(Delivered) :
          (a < b /\ b < c /\ Delivered[a].key = Delivered[c].key)
              => Delivered[b].key = Delivered[a].key
    /\ \A i \in Shards : \A k \in Key : Count(Delivered, Obj(k, i)) <= 1
    /\ (outClosed /\ out = <<>>) =>
          \A k \in Key : \A i \in Shards :
              Count(got, Obj(k, i)) = (IF i \in Holders(k) THEN 1 ELSE 0)

\* C17 witness: a finished listing whose output holds the key of two or
\* more shards once per shard, between a smaller and a larger key.
C17_Witness ==
    /\ outClosed
    /\ out = <<>>
    /\ Cardinality(Holders(DupKey)) >= 2
    /\ \E a \in 2..(Len(got) - 2) :
          /\ got[a].key = DupKey
          /\ got[a + 1].key = DupKey
          /\ got[a].shard # got[a + 1].shard
          /\ StrLess(got[a - 1].key, DupKey)
          /\ StrLess(DupKey, got[a + 2].key)


\* sharded.ListAll has returned the error of a shard's first request: the
\* channels of the shards opened before it have no receiver any more.
ReturnedError == ret = "err"

\* Producer i is at a send into its full queue.
AtFullQueue(i) == pc[i] = "emit" /\ MorePages(objs[i]) /\ ~CanSend(i)

\* C19: once sharded.ListAll has returned the error of shard si's first
\* request, no producer started for an earlier shard is held at a send into
\* a queue that nobody reads; each can go on until it closes its queue.
C19_AbandonedProducersFinish ==
    ReturnedError => \A j \in Shards : j < si => ~AtFullQueue(j)


\* The positions in reqs[0] of the requests that are not retries: the first
\* request and every request that follows a successful one.
NonRetry == {j \in 1..Len(reqs[0]) : j = 1 \/ reqs[0][j - 1].ok}

\* The objects the driver has emitted (the nil that reports an ordering
\* error is not one).
Emitted == SelectSeq(sent[0], LAMBDA o : ~o.nil)

\* The markers of the non-retry requests from position n on are strictly
\* increasing.
MarkersIncreaseFrom(n) ==
    \A a, b \in NonRetry : (n <= a /\ a < b) => StrLess(reqs[0][a].marker, reqs[0][b].marker)

\* Every emitted key is above the caller's starting marker.
EmittedAboveStart == \A j \in 1..Len(Emitted) : StrLess(start, Emitted[j].key)

\* C20 as claimed: whatever the backend answers, every key the driver emits
\* is strictly greater than the caller's starting marker and the markers of
\* successive non-retry List requests are strictly increasing.
C20_AboveStartForAnyBackend ==
    /\ EmittedAboveStart
    /\ MarkersIncreaseFrom(1)

\* C20 amended: whatever the backend answers, the markers of the non-retry
\* requests after the first are strictly increasing; and if the first key
\* emitted is above the starting marker, so is every emitted key, and the
\* starting marker is below every later marker.
C20_AboveStartIfFirstKeyIs ==
    /\ MarkersIncreaseFrom(2)
    /\ (Emitted # <<>> /\ StrLess(start, Emitted[1].key)) =>
          (EmittedAboveStart /\ MarkersIncreaseFrom(1))

\* C20 witness: a backend whose first page ignored the marker, and three
\* non-retry requests with a retry among the requests.
C20_Witness ==
    /\ Emitted # <<>>
    /\ ~StrLess(start, Emitted[1].key)
    /\ Cardinality(NonRetry) >= 3
    /\ Cardinality(NonRetry) < Len(reqs[0])

=============================================================================
